---- MODULE Spec2Model ----
(***************************************************************************)
(* PaperRAG backend: ingestion into the two vector collections, deletion,  *)
(* the two-stage search of rag_service.py, the metadata cascade of         *)
(* pdf_utils.py and the page back-fill of chunk_utils.py.                  *)
(*                                                                         *)
(* The specifications of the module:                                      *)
(*   Spec      - the collections under interleaved upload/delete/search    *)
(*   SpecMeta  - extract_pdf_metadata, one step per cascade stage          *)
(*   SpecChunk - chunk_text as a function of the document and the sizes    *)
(*   SpecAbs   - the abstract add_paper stores, from record and first page  *)
(*   SpecUpload  - POST /upload and DELETE with the directory papers/       *)
(*   SpecRequest - search requests with their provider and api_key          *)
(*   SpecConc  - add_paper and delete_paper statement by statement, every  *)
(*               call completing                                            *)
(*   SpecRebuild - the same with failures and with clear_all_data tasks     *)
(***************************************************************************)
EXTENDS Integers, Sequences, FiniteSets, TLC

\* ------------------------------------------------------------------ bounds
MaxPapers == 2      \* distinct files (content hashes) that may be uploaded
MaxChunks == 2      \* chunks of the longest file
MaxK == 2           \* largest k of a search request
MaxQuery == 2       \* distinct query embeddings
MaxFirstPage == 4   \* characters of the first page, in SpecAbs
MaxNames == 2       \* distinct file names of uploads
MaxRebuilds == 2    \* rebuild tasks that may be scheduled at once

\* ------------------------------------------------------- program constants
StageOneLimit == 5  \* n_results = min(5, k)

PaperIds == 1..MaxPapers
FileNames == 1..MaxNames
RebuildIds == 1..MaxRebuilds
CollectionNames == {"new_academic_papers", "new_paper_chunks"}
Queries == 0..(MaxQuery - 1)
Providers == {"Local", "OpenAI", "Google", "Anthropic", "local"}

Min(a, b) == IF a <= b THEN a ELSE b
Max(a, b) == IF a >= b THEN a ELSE b
Range(s) == {s[i] : i \in 1..Len(s)}

\* Sequences over S of length n without repetition.
InjSeqs(S, n) == {s \in [1..n -> S] : \A i, j \in 1..n : s[i] = s[j] => i = j}

VARIABLES
    papers_collection,  \* set of paper-level records
    chunks_collection,  \* set of chunk-level records
    upPc,               \* per file: position of the upload request handling it
    clean_delete,       \* history: ids deleted with no ingestion in progress or since
    s_pc,               \* search request: "idle", "stage1", "done"
    s_k,                \* its k
    s_q,                \* the embedding of its query
    s_paper_results,    \* stage-1 metadatas, in rank order
    s_results,          \* stage-2 rows <<chunk record, distance>>, in rank order
    s_out,              \* what search returned (or that it raised)
    s_calls,            \* collaborator calls made by the search, in order
    md_text, md_pc, md_calls, md_result,                \* SpecMeta
    ck_pages, ck_size, ck_overlap, ck_pc, ck_chunks,    \* SpecChunk
    ck_spans,           \* history: where each chunk's text lies in the buffer
    ab_page, ab_meta, ab_pc, ab_out,                    \* SpecAbs
    papers_dir,         \* the directory papers/: per file name, the content stored
    up_resp,            \* the last response of POST /upload
    up_pre,             \* history: papers/ and the collections before a rejected upload
    rq,                 \* SpecRequest: provider and api_key of the search request
    delPc,              \* per paper id: position of the delete request
    rbPc,               \* per rebuild task: position in clear_all_data
    live                \* per collection: it exists and its module-level handle is on it

storeVars == <<papers_collection, chunks_collection, upPc, clean_delete>>
searchVars == <<s_pc, s_k, s_q, s_paper_results, s_results, s_out, s_calls>>
metaVars == <<md_text, md_pc, md_calls, md_result>>
chunkVars == <<ck_pages, ck_size, ck_overlap, ck_pc, ck_chunks, ck_spans>>
absVars == <<ab_page, ab_meta, ab_pc, ab_out>>
dirVars == <<papers_dir, up_resp, up_pre>>
concVars == <<delPc, rbPc, live>>
restVars == <<absVars, dirVars, rq, concVars>>
vars == <<storeVars, searchVars, metaVars, chunkVars, restVars>>

\* ------------------------------------------------------------- the files
\* A file is identified by its content hash p; its metadata and its chunking
\* are functions of the content.
TitleOf(p) == <<"title", p>>
YearOf(p) == 2020 + (p % 2)
NChunks(p) == ((p + MaxChunks - 2) % MaxChunks) + 1
TextOf(p, c) == <<"text", p, c>>

\* rag_service.add_paper: the record written to papers_collection.
PaperRecord(p) ==
    [id |-> p, paper_id |-> p, hash |-> p, title |-> TitleOf(p), year |-> YearOf(p)]

\* rag_service.add_paper: the records written to chunks_collection
\* (ids "{file_hash}_{chunk_id}", chunk_id = 0..N-1).
ChunkRecordsFromOne(p) ==
    {[id |-> <<p, c + 1>>, paper_id |-> p, chunk_id |-> c + 1,
      page_start |-> c, page_end |-> c, document |-> TextOf(p, c)]
        : c \in 0..(NChunks(p) - 1)}
ChunkRecords(p) ==
    {[id |-> <<p, c>>, paper_id |-> p, chunk_id |-> c,
      page_start |-> c, page_end |-> c, document |-> TextOf(p, c)]
        : c \in 0..(NChunks(p) - 1)}

\* Collection.add: a record whose id is already stored is not overwritten.
CollAdd(coll, recs) == coll \cup {r \in recs : \A x \in coll : x.id # r.id}

\* Collection.delete(where={"paper_id": p})
CollDeleteNone(coll, p) == coll
CollDelete(coll, p) == {r \in coll : r.paper_id # p}

\* delete_paper's second statement, on the chunk collection.
DeleteChunksOf(coll, p) == CollDelete(coll, p)

\* list_papers + the duplicate test of upload_papers.
HashExists(p) == \E r \in papers_collection : r.hash = p

Observed == s_pc = "done"   \* a search response is being read: nothing else moves

\* ------------------------------------------------------------ ingestion
\* POST /upload for file p: duplicate test, then add_paper up to and including
\* papers_collection.add.  A duplicate is rejected (409) and nothing is written.
upload_papers(p) ==
    /\ ~Observed
    /\ upPc[p] = "idle"
    /\ ~HashExists(p)
    /\ papers_collection' = CollAdd(papers_collection, {PaperRecord(p)})
    /\ upPc' = [upPc EXCEPT ![p] = "stored"]
    /\ clean_delete' = clean_delete \ {p}
    /\ UNCHANGED <<chunks_collection, searchVars, metaVars, chunkVars, restVars>>

\* add_paper steps 3-4: chunking, embedding and chunks_collection.add.
add_paper_chunks(p) ==
    /\ ~Observed
    /\ upPc[p] = "stored"
    /\ chunks_collection' = CollAdd(chunks_collection, ChunkRecords(p))
    /\ upPc' = [upPc EXCEPT ![p] = "idle"]
    /\ UNCHANGED <<papers_collection, clean_delete, searchVars, metaVars, chunkVars, restVars>>

\* add_paper raises after the paper-level write (text extraction, embedding or
\* the chunk write failed); the handler logs and re-raises.
add_paper_raise(p) ==
    /\ ~Observed
    /\ upPc[p] = "stored"
    /\ upPc' = [upPc EXCEPT ![p] = "idle"]
    /\ UNCHANGED <<papers_collection, chunks_collection, clean_delete,
                   searchVars, metaVars, chunkVars, restVars>>

\* ------------------------------------------------------------- deletion
\* delete_paper: papers_collection.delete, then chunks_collection.delete.
delete_paper(p) ==
    /\ ~Observed
    /\ papers_collection' = CollDelete(papers_collection, p)
    /\ chunks_collection' = DeleteChunksOf(chunks_collection, p)
    /\ clean_delete' = IF upPc[p] = "idle" THEN clean_delete \cup {p}
                       ELSE clean_delete \ {p}
    /\ UNCHANGED <<upPc, searchVars, metaVars, chunkVars, restVars>>

\* ---------------------------------------------------------------- search
\* Cosine distances are fixed-point numbers, DistUnit = 1.0; the index may
\* return any distance in [0, 2].  The distance of a stored embedding to the
\* embedding of query q is read from a table (no entry is half-way between
\* two hundredths of a percent): one table row per abstract, one per chunk.
DistUnit == 100 * 1000
DistTable == <<45003, 150004, 0, 99996, 200000, 12347>>
PaperDist(q, r) == DistTable[(((q + 1) * r.paper_id) % Len(DistTable)) + 1]
Dist(q, r) == DistTable[((q + 2 * r.paper_id + 3 * r.chunk_id) % Len(DistTable)) + 1]

\* round(similarity * 100, 2), in hundredths: 100.00 is 10000.
RoundDiv(a, b) == ((2 * a + b) \div (2 * b))
Similarity(dist) == DistUnit - dist
Score(dist) == RoundDiv(Similarity(dist) * 100 * 100, DistUnit)

\* Collection.query(n_results = n): the n nearest records, nearest first; ties
\* in any order.
TopRanked(dist, n) ==
    {s \in InjSeqs(DOMAIN dist, Min(n, Cardinality(DOMAIN dist))) :
        /\ \A i \in 1..(Len(s) - 1) : dist[s[i]] <= dist[s[i + 1]]
        /\ \A r \in (DOMAIN dist) \ Range(s) : \A i \in 1..Len(s) : dist[s[i]] <= dist[r]}

\* papers_collection.query(query_embeddings=[q], n_results=n)
PaperQuery(q, n) == TopRanked([r \in papers_collection |-> PaperDist(q, r)], n)

\* candidate_papers: (meta.get("hash"), similarity) per stage-1 row; the ids.
CandidateIds(paper_results) == {paper_results[i].hash : i \in 1..Len(paper_results)}

\* if not candidate_papers
NeverEmpty(paper_results) == FALSE
NoCandidates(paper_results) == Len(paper_results) = 0

\* where={"paper_id": {"$in": [pid for pid, _ in candidate_papers]}}
WhereAny(ids, r) == TRUE
ChunkWhere(ids, r) == r.paper_id \in ids

\* chunks_collection.query(query_embeddings=[q], n_results=k, where=...)
ChunkQuery(ids, q, k) ==
    TopRanked([r \in {x \in chunks_collection : ChunkWhere(ids, x)} |-> Dist(q, r)], k)

\* zip(chunks, chunk_matas, metas, scores): stops at the shortest argument.
ZipLen(results, metas) == Min(Len(results), Len(metas))

\* Step 4: one source per zipped row.
Sources(results, metas) ==
    [i \in 1..ZipLen(results, metas) |->
        [chunk_text |-> results[i][1].document,
         chunk_id   |-> results[i][1].chunk_id,
         paper_id   |-> metas[i].paper_id,
         paper_title |-> metas[i].title,
         paper_year |-> metas[i].year,
         page_start |-> results[i][1].page_start,
         page_end   |-> results[i][1].page_end,
         score      |-> Score(results[i][2])]]

\* Step 5: "\n\n".join(s["chunk_text"] for s in sources), as the list joined.
Context(sources) == [i \in 1..Len(sources) |-> sources[i].chunk_text]

\* generate_answer: the provider dispatch; the backend called, or "raise".
generate_answer(provider) ==
    IF provider = "Local" THEN "generate_completion_local"
    ELSE IF provider = "OpenAI" THEN "generate_completion_openai"
    ELSE IF provider = "Google" THEN "generate_completion_gemini"
    ELSE IF provider = "Anthropic" THEN "generate_completion_claude"
    ELSE "raise"

NoOut == [status |-> "none", sources |-> <<>>, answer |-> "", context |-> <<>>]

\* search, steps 1-2: embed the query, query the paper collection, and return
\* early when there is no candidate.  n_results < 1 is refused by the index.
search_stage1(q, k) ==
    /\ s_pc = "idle"
    /\ s_k' = k
    /\ s_q' = q
    /\ IF Min(StageOneLimit, k) < 1
       THEN /\ s_pc' = "done"
            /\ s_out' = [NoOut EXCEPT !.status = "raised"]
            /\ s_calls' = <<"get_embeddings", "papers_collection.query">>
            /\ UNCHANGED s_paper_results
       ELSE \E pr \in PaperQuery(q, Min(StageOneLimit, k)) :
            /\ s_paper_results' = pr
            /\ s_calls' = <<"get_embeddings", "papers_collection.query">>
            /\ IF NoCandidates(pr)
               THEN /\ s_pc' = "done"
                    /\ s_out' = [NoOut EXCEPT !.status = "returned",
                                             !.answer = "No relevant papers found."]
               ELSE /\ s_pc' = "stage1"
                    /\ UNCHANGED s_out
    /\ UNCHANGED <<s_results, storeVars, metaVars, chunkVars, restVars>>

\* search, steps 3-6: the filtered chunk query, the sources, the context and
\* the completion.  The completion function is called with whatever api_key
\* the request carries; it returns the completion or raises (no key, refused
\* key, unreachable service), and search re-raises.
search_stage2(provider) ==
    /\ s_pc = "stage1"
    /\ \E res \in ChunkQuery(CandidateIds(s_paper_results), s_q, s_k), completed \in BOOLEAN :
        LET results == [i \in 1..Len(res) |-> <<res[i], Dist(s_q, res[i])>>]
            sources == Sources(results, s_paper_results)
            backend == generate_answer(provider)
        IN  /\ s_results' = results
            /\ s_pc' = "done"
            /\ IF backend = "raise"
               THEN /\ s_calls' = Append(s_calls, "chunks_collection.query")
                    /\ s_out' = [NoOut EXCEPT !.status = "raised"]
               ELSE /\ s_calls' = s_calls \o <<"chunks_collection.query", backend>>
                    /\ s_out' = IF completed
                                THEN [status |-> "returned", sources |-> sources,
                                      answer |-> "completion", context |-> Context(sources)]
                                ELSE [NoOut EXCEPT !.status = "raised"]
    /\ UNCHANGED <<s_k, s_q, s_paper_results, storeVars, metaVars, chunkVars, restVars>>

\* The response has been delivered; the request's locals are gone.
search_return ==
    /\ s_pc = "done"
    /\ s_pc' = "idle"
    /\ s_k' = 0
    /\ s_q' = 0
    /\ s_paper_results' = <<>>
    /\ s_results' = <<>>
    /\ s_out' = NoOut
    /\ s_calls' = <<>>
    /\ UNCHANGED <<storeVars, metaVars, chunkVars, restVars>>

\* ------------------------------------------------------ the collections
InitStore ==
    /\ papers_collection = {}
    /\ chunks_collection = {}
    /\ upPc = [p \in PaperIds |-> "idle"]
    /\ clean_delete = {}

InitSearch ==
    /\ s_pc = "idle"
    /\ s_k = 0
    /\ s_q = 0
    /\ s_paper_results = <<>>
    /\ s_results = <<>>
    /\ s_out = NoOut
    /\ s_calls = <<>>

InitMetaIdle ==
    /\ md_text = <<>>
    /\ md_pc = "off"
    /\ md_calls = <<>>
    /\ md_result = "none"

InitChunkIdle ==
    /\ ck_pages = <<>>
    /\ ck_size = 0
    /\ ck_overlap = 0
    /\ ck_pc = "off"
    /\ ck_chunks = <<>>
    /\ ck_spans = <<>>

InitAbsIdle ==
    /\ ab_page = <<>>
    /\ ab_meta = [kind |-> "absent", text |-> <<>>]
    /\ ab_pc = "off"
    /\ ab_out = <<>>

NoFile == 0      \* no file of that name (content hashes are 1..MaxPapers)
NoResp == [status |-> 0, hash |-> 0, filename |-> 0]

NoPre == [dir |-> [n \in FileNames |-> NoFile], papers |-> {}, chunks |-> {}]

InitDirIdle ==
    /\ papers_dir = [n \in FileNames |-> NoFile]
    /\ up_resp = NoResp
    /\ up_pre = NoPre

InitReqIdle == rq = [provider |-> "Local", api_key |-> "None"]

InitConcIdle ==
    /\ delPc = [p \in PaperIds |-> "idle"]
    /\ rbPc = [t \in RebuildIds |-> "idle"]
    /\ live = [c \in CollectionNames |-> TRUE]

InitRestIdle == InitAbsIdle /\ InitDirIdle /\ InitReqIdle /\ InitConcIdle

Init == InitStore /\ InitSearch /\ InitMetaIdle /\ InitChunkIdle /\ InitRestIdle

Next ==
    \/ \E p \in PaperIds : upload_papers(p)
    \/ \E p \in PaperIds : add_paper_chunks(p)
    \/ \E p \in PaperIds : add_paper_raise(p)
    \/ \E p \in PaperIds : delete_paper(p)
    \/ \E q \in Queries, k \in 0..MaxK : search_stage1(q, k)
    \/ \E provider \in Providers : search_stage2(provider)
    \/ search_return

Spec == Init /\ [][Next]_vars

\* ------------------------------------------------- properties of search
Stage2Ran == \E i \in 1..Len(s_calls) : s_calls[i] = "chunks_collection.query"
Backends == {"generate_completion_local", "generate_completion_openai",
             "generate_completion_gemini", "generate_completion_claude"}
BackendCalled == \E i \in 1..Len(s_calls) : s_calls[i] \in Backends
StageOneIds == {s_paper_results[j].paper_id : j \in 1..Len(s_paper_results)}
\* The paper a source's chunk belongs to: chunk texts are distinct per chunk.
OwnerOfText(text) == text[2]

\* C1: every chunk row returned by the stage-2 query carries a paper_id that
\* is among the paper ids returned by the stage-1 query of the same search.
C1_TwoStageFilter ==
    \A i \in 1..Len(s_results) : s_results[i][1].paper_id \in StageOneIds

\* C1 witness: stage 2 returned rows while the chunk collection also held a
\* chunk of a paper outside the stage-1 result.
C1_Witness ==
    /\ s_pc = "done"
    /\ Len(s_results) > 0
    /\ \E r \in chunks_collection : r.paper_id \notin StageOneIds

\* C2: in a returned result every source's paper_id, paper_title and
\* paper_year are those of the stage-1 paper whose id is the stored paper_id
\* of the source's chunk.
C2_SourcesJoinedByPaperId ==
    s_out.status = "returned" =>
        \A i \in 1..Len(s_out.sources) :
            \E j \in 1..Len(s_paper_results) :
                /\ s_paper_results[j].paper_id = s_results[i][1].paper_id
                /\ s_out.sources[i].paper_id = s_paper_results[j].paper_id
                /\ s_out.sources[i].paper_title = s_paper_results[j].title
                /\ s_out.sources[i].paper_year = s_paper_results[j].year

\* C3: when the search reached stage 2 and returned, the sources and the
\* context list every returned chunk once, in the stage-2 order.
C3_EveryChunkIsASource ==
    (s_out.status = "returned" /\ Stage2Ran) =>
        /\ Len(s_out.sources) = Len(s_results)
        /\ Len(s_out.context) = Len(s_results)
        /\ \A i \in 1..Len(s_results) :
            /\ s_out.sources[i].chunk_text = s_results[i][1].document
            /\ s_out.context[i] = s_results[i][1].document

\* C4: a search whose stage-1 query returned no candidate returns no sources
\* and the fixed answer, and has called neither the chunk query nor a
\* completion backend.
C4_EmptyCandidateShortCircuit ==
    (s_pc = "done" /\ s_k >= 1 /\ Len(s_paper_results) = 0) =>
        /\ s_out.status = "returned"
        /\ s_out.sources = <<>>
        /\ s_out.answer = "No relevant papers found."
        /\ ~Stage2Ran
        /\ ~BackendCalled

\* C4 witness: the short-circuit was taken although the chunk collection is
\* not empty.
C4_Witness ==
    /\ s_pc = "done"
    /\ s_k >= 1
    /\ Len(s_paper_results) = 0
    /\ s_out.answer = "No relevant papers found."
    /\ chunks_collection # {}

\* C5: every source's score lies between 0 and 100 (0 and 10000 hundredths).
C5_ScoreInRange ==
    \A i \in 1..Len(s_out.sources) :
        s_out.sources[i].score >= 0 /\ s_out.sources[i].score <= 100 * 100

\* C7: once delete_paper(p) has returned, with no ingestion of p in progress
\* then or begun since, neither collection holds a record of p and no
\* returned source is a chunk of p.
C7_DeleteRemovesPaperAndChunks ==
    \A p \in clean_delete :
        /\ \A r \in papers_collection : r.paper_id # p
        /\ \A r \in chunks_collection : r.paper_id # p
        /\ \A i \in 1..Len(s_out.sources) :
            OwnerOfText(s_out.sources[i].chunk_text) # p

\* C7 witness: p was a stage-1 candidate, was then deleted, and the search
\* went on to return sources.
C7_Witness ==
    \E p \in clean_delete :
        /\ p \in StageOneIds
        /\ s_out.status = "returned"
        /\ Len(s_out.sources) > 0

\* ---------------------------------------------------- metadata cascade
\* The first page is a sequence of tokens: "doi" is a substring the DOI
\* pattern matches, "arxiv" one the arXiv pattern matches, "word" neither.
MaxTokens == 3
MetaTokens == {"doi", "arxiv", "word"}
FirstPages == UNION {[1..n -> MetaTokens] : n \in 0..MaxTokens}

\* re.search(r"10\.\d{4,9}/[-._;()/:A-Z0-9]+", first_page_text, re.I)
doi_match(text) == \E i \in 1..Len(text) : text[i] = "doi"
\* re.search(r"arXiv:\d{4}\.\d{4,5}(v\d+)?", first_page_text)
arxiv_match(text) == \E i \in 1..Len(text) : text[i] = "arxiv"

\* extract_pdf_metadata: the stage the cascade enters for a first page.
ArxivBeforeDoi(text) ==
    IF arxiv_match(text) THEN "fetch_metadata_from_arxiv"
    ELSE IF doi_match(text) THEN "fetch_metadata_from_doi"
    ELSE "extract_basic_metadata_from_pdf"
CascadeStage(text) ==
    IF doi_match(text) THEN "fetch_metadata_from_doi"
    ELSE IF arxiv_match(text) THEN "fetch_metadata_from_arxiv"
    ELSE "extract_basic_metadata_from_pdf"

\* extract_pdf_metadata up to the call of the stage it selects.
extract_pdf_metadata ==
    /\ md_pc = "start"
    /\ md_pc' = CascadeStage(md_text)
    /\ md_calls' = Append(md_calls, CascadeStage(md_text))
    /\ UNCHANGED <<md_text, md_result, storeVars, searchVars, chunkVars, restVars>>

\* fetch_metadata_from_doi: the registry answers, or the call fails and the
\* except branch returns the error-tagged record.
fetch_metadata_from_doi(ok) ==
    /\ md_pc = "fetch_metadata_from_doi"
    /\ md_pc' = "done"
    /\ md_result' = IF ok THEN [source |-> "crossref", raised |-> FALSE]
                    ELSE [source |-> "crossref_error", raised |-> FALSE]
    /\ UNCHANGED <<md_text, md_calls, storeVars, searchVars, chunkVars, restVars>>

\* fetch_metadata_from_arxiv, likewise.
fetch_metadata_from_arxiv(ok) ==
    /\ md_pc = "fetch_metadata_from_arxiv"
    /\ md_pc' = "done"
    /\ md_result' = IF ok THEN [source |-> "arxiv", raised |-> FALSE]
                    ELSE [source |-> "arxiv_error", raised |-> FALSE]
    /\ UNCHANGED <<md_text, md_calls, storeVars, searchVars, chunkVars, restVars>>

\* extract_basic_metadata_from_pdf: the heuristic parse of the first page.
extract_basic_metadata_from_pdf ==
    /\ md_pc = "extract_basic_metadata_from_pdf"
    /\ md_pc' = "done"
    /\ md_result' = [source |-> "pdf_heuristic", raised |-> FALSE]
    /\ UNCHANGED <<md_text, md_calls, storeVars, searchVars, chunkVars, restVars>>

InitMeta ==
    /\ InitStore /\ InitSearch /\ InitChunkIdle /\ InitRestIdle
    /\ md_text \in FirstPages
    /\ md_pc = "start"
    /\ md_calls = <<>>
    /\ md_result = [source |-> "none", raised |-> FALSE]

NextMeta ==
    \/ extract_pdf_metadata
    \/ \E ok \in BOOLEAN : fetch_metadata_from_doi(ok)
    \/ \E ok \in BOOLEAN : fetch_metadata_from_arxiv(ok)
    \/ extract_basic_metadata_from_pdf

SpecMeta == InitMeta /\ [][NextMeta]_vars

Called(fn) == \E i \in 1..Len(md_calls) : md_calls[i] = fn

\* C6: a cascade stage runs only when no earlier stage's pattern matched: with
\* a DOI on the first page neither the arXiv lookup nor the heuristic parse is
\* called and the result is the registry record or the crossref_error record,
\* never an exception; with an arXiv id and no DOI the heuristic parse is not
\* called.
C6_CascadeShortCircuit ==
    /\ Called("fetch_metadata_from_arxiv") => ~doi_match(md_text)
    /\ Called("extract_basic_metadata_from_pdf") =>
            (~doi_match(md_text) /\ ~arxiv_match(md_text))
    /\ (md_pc = "done" /\ doi_match(md_text)) =>
            /\ md_result.source \in {"crossref", "crossref_error"}
            /\ ~md_result.raised
            /\ md_calls = <<"fetch_metadata_from_doi">>
    /\ (md_pc = "done" /\ ~doi_match(md_text) /\ arxiv_match(md_text)) =>
            /\ md_result.source \in {"arxiv", "arxiv_error"}
            /\ md_calls = <<"fetch_metadata_from_arxiv">>

\* C6 witness: the page holds a DOI and an arXiv id, the DOI lookup failed,
\* and the cascade has ended.
C6_Witness ==
    /\ md_pc = "done"
    /\ doi_match(md_text)
    /\ arxiv_match(md_text)
    /\ md_result.source = "crossref_error"

\* -------------------------------------------------------------- chunking
\* Texts are sequences of characters.  A piece of the buffer is a pair
\* <<s, e>>: the characters at offsets s..e-1 (0-based, end exclusive).
NL == "\n"
Whitespace == {" ", NL}
Separators == << <<NL, NL>>, <<NL>>, <<".", " ">>, <<" ">>, <<>> >>

Slice(T, sp) == SubSeq(T, sp[1] + 1, sp[2])
SpanLen(sp) == sp[2] - sp[1]

\* chunk_text step 1: full_text, every page followed by "\n".
RECURSIVE full_text(_)
full_text(pages) ==
    IF pages = <<>> THEN <<>>
    ELSE Head(pages).text \o <<NL>> \o full_text(Tail(pages))

\* chunk_text step 1: page_ranges, (start_char, end_char, page_number).
RECURSIVE page_ranges(_, _)
page_ranges(pages, cursor) ==
    IF pages = <<>> THEN <<>>
    ELSE LET end == cursor + Len(Head(pages).text)
         IN  << <<cursor, end, Head(pages).page>> >> \o page_ranges(Tail(pages), end + 1)

\* re: does sep occur in T at offset i, inside the piece ending at e.
MatchAt(T, i, e, sep) ==
    /\ i + Len(sep) <= e
    /\ \A j \in 1..Len(sep) : T[i + j] = sep[j]

\* re.split: the offsets of the leftmost non-overlapping matches in a piece.
RECURSIVE Matches(_, _, _, _)
Matches(T, i, e, sep) ==
    IF i + Len(sep) > e THEN <<>>
    ELSE IF MatchAt(T, i, e, sep) THEN <<i>> \o Matches(T, i + Len(sep), e, sep)
    ELSE Matches(T, i + 1, e, sep)

\* _split_text_with_regex(text, separator, keep_separator=True): every
\* separator stays at the head of the piece that follows it; empty pieces
\* are dropped.  With separator "" the pieces are the characters.
split_text_with_regex(T, sp, sep) ==
    LET cuts == IF sep = <<>>
                THEN [i \in 1..(SpanLen(sp) - 1) |-> sp[1] + i]
                ELSE Matches(T, sp[1], sp[2], sep)
        n == Len(cuts)
        all == [i \in 1..(n + 1) |->
                  << IF i = 1 THEN sp[1] ELSE cuts[i - 1],
                     IF i = n + 1 THEN sp[2] ELSE cuts[i] >>]
    IN  SelectSeq(all, LAMBDA x : x[2] > x[1])

\* text.strip(): leading and trailing whitespace removed.
RECURSIVE StripLeft(_, _)
StripLeft(T, sp) ==
    IF sp[1] < sp[2] /\ T[sp[1] + 1] \in Whitespace
    THEN StripLeft(T, <<sp[1] + 1, sp[2]>>) ELSE sp
RECURSIVE StripRight(_, _)
StripRight(T, sp) ==
    IF sp[1] < sp[2] /\ T[sp[2]] \in Whitespace
    THEN StripRight(T, <<sp[1], sp[2] - 1>>) ELSE sp
Strip(T, sp) == StripRight(T, StripLeft(T, sp))

\* _join_docs(docs, ""): the pieces are adjacent, so their join is the piece
\* from the first start to the last end, stripped; nothing when that is empty.
join_docs(T, cur) ==
    IF cur = <<>> THEN <<>>
    ELSE LET d == Strip(T, <<cur[1][1], cur[Len(cur)][2]>>)
         IN  IF d[1] = d[2] THEN <<>> ELSE <<d>>

Total(cur) == IF cur = <<>> THEN 0 ELSE cur[Len(cur)][2] - cur[1][1]

\* _merge_splits: the while loop that drops pieces from the front of
\* current_doc until at most chunk_overlap characters remain and the next
\* piece fits.
RECURSIVE pop_front(_, _, _, _)
pop_front(cur, len, size, overlap) ==
    IF Total(cur) > overlap \/ (Total(cur) + len > size /\ Total(cur) > 0)
    THEN pop_front(Tail(cur), len, size, overlap)
    ELSE cur

\* _merge_splits(splits, ""): the for loop from piece i on.
RECURSIVE merge_splits(_, _, _, _, _, _)
merge_splits(T, splits, i, cur, size, overlap) ==
    IF i > Len(splits) THEN join_docs(T, cur)
    ELSE LET d == splits[i]
         IN  IF Total(cur) + SpanLen(d) > size /\ Len(cur) > 0
             THEN join_docs(T, cur)
                  \o merge_splits(T, splits, i + 1,
                                  Append(pop_front(cur, SpanLen(d), size, overlap), d),
                                  size, overlap)
             ELSE merge_splits(T, splits, i + 1, Append(cur, d), size, overlap)

\* RecursiveCharacterTextSplitter._split_text: the separator chosen for a
\* piece is the first of the list that occurs in it ("" always does).
RECURSIVE PickSeparator(_, _, _, _)
PickSeparator(T, sp, seps, i) ==
    IF i >= Len(seps) \/ seps[i] = <<>> THEN i
    ELSE IF Matches(T, sp[1], sp[2], seps[i]) # <<>> THEN i
    ELSE PickSeparator(T, sp, seps, i + 1)

RECURSIVE split_text(_, _, _, _, _)
RECURSIVE split_loop(_, _, _, _, _, _, _, _)
\* the for loop of _split_text over the pieces: pieces shorter than
\* chunk_size are collected and merged, a longer one is split again with the
\* remaining separators, or kept whole when none remains.
split_loop(T, splits, i, good, rest, seps, size, overlap) ==
    IF i > Len(splits) THEN merge_splits(T, good, 1, <<>>, size, overlap)
    ELSE IF SpanLen(splits[i]) < size
    THEN split_loop(T, splits, i + 1, Append(good, splits[i]), rest, seps, size, overlap)
    ELSE merge_splits(T, good, 1, <<>>, size, overlap)
         \o (IF rest = <<>> THEN <<splits[i]>>
             ELSE split_text(T, splits[i], rest, size, overlap))
         \o split_loop(T, splits, i + 1, <<>>, rest, seps, size, overlap)

split_text(T, sp, seps, size, overlap) ==
    LET k == PickSeparator(T, sp, seps, 1)
        rest == IF seps[k] = <<>> THEN <<>> ELSE SubSeq(seps, k + 1, Len(seps))
    IN  split_loop(T, split_text_with_regex(T, sp, seps[k]), 1, <<>>, rest, seps,
                   size, overlap)

\* splitter.create_documents([full_text]): the chunks, as pieces of the buffer.
create_documents(T, size, overlap) ==
    IF T = <<>> THEN <<>> ELSE split_text(T, <<0, Len(T)>>, Separators, size, overlap)

\* chunk_text step 3: cursor before chunk i = the lengths of the chunks before it.
RECURSIVE CursorAt(_, _)
CursorAt(docs, i) == IF i <= 1 THEN 0 ELSE CursorAt(docs, i - 1) + SpanLen(docs[i - 1])

\* not (r[1] < start or r[0] > end)
Disjoint(r, start, end) == r[2] < start \/ r[1] > end
PagesInChunk(ranges, start, end) ==
    {ranges[j][3] : j \in {x \in 1..Len(ranges) : ~Disjoint(ranges[x], start, end)}}

SetMin(S) == CHOOSE x \in S : \A y \in S : x <= y
SetMax(S) == CHOOSE x \in S : \A y \in S : x >= y

\* chunk_text steps 2-3, for documents already split.
ChunkRows(T, docs, ranges) ==
    [i \in 1..Len(docs) |->
        LET start == CursorAt(docs, i)
            end == start + SpanLen(docs[i])
            in_chunk == PagesInChunk(ranges, start, end)
        IN  [text |-> Slice(T, docs[i]),
             chunk_id |-> i - 1,
             page_start |-> IF in_chunk # {} THEN SetMin(in_chunk) ELSE -1,
             page_end |-> IF in_chunk # {} THEN SetMax(in_chunk) ELSE -1]]

chunk_text(pages, size, overlap) ==
    ChunkRows(full_text(pages), create_documents(full_text(pages), size, overlap),
              page_ranges(pages, 0))

\* --------------------------------------------------- chunk_text's inputs
MaxPages == 3       \* pages of a document
MaxBuffer == 7      \* characters of full_text, page breaks included
MaxSize == 3        \* largest chunk_size

\* extract_text_from_pdf: a page's cleaned text has single spaces only, none
\* at its ends, no punctuation at its ends and no run of punctuation.
Alphabet == {"a", ".", " "}
CleanText(t) ==
    /\ Len(t) > 0 => (t[1] = "a" /\ t[Len(t)] = "a")
    /\ \A i \in 1..(Len(t) - 1) : ~(t[i] = " " /\ t[i + 1] = " ")
    /\ \A i \in 1..(Len(t) - 1) : ~(t[i] = "." /\ t[i + 1] = ".")
    /\ \A i \in 1..(Len(t) - 2) : ~(t[i] = "." /\ t[i + 1] = " " /\ t[i + 2] = ".")
PageTexts(n) == UNION {{t \in [1..m -> Alphabet] : CleanText(t)} : m \in 0..n}

\* PyPDFLoader numbers the pages from 0, in document order.
RECURSIVE Documents(_, _, _)
Documents(budget, npages, first) ==
    IF npages = 0 \/ budget < 1 THEN {<<>>}
    ELSE {<<>>} \cup
         UNION {{<<[text |-> t, page |-> first]>> \o d :
                    d \in Documents(budget - Len(t) - 1, npages - 1, first + 1)}
                : t \in PageTexts(budget - 1)}

\* chunk_text(pages, chunk_size, chunk_overlap)
chunk_text_call ==
    /\ ck_pc = "start"
    /\ ck_pc' = "done"
    /\ ck_chunks' = chunk_text(ck_pages, ck_size, ck_overlap)
    /\ ck_spans' = create_documents(full_text(ck_pages), ck_size, ck_overlap)
    /\ UNCHANGED <<ck_pages, ck_size, ck_overlap, storeVars, searchVars, metaVars, restVars>>

InitChunk ==
    /\ InitStore /\ InitSearch /\ InitMetaIdle /\ InitRestIdle
    /\ ck_pages \in Documents(MaxBuffer, MaxPages, 0)
    /\ ck_size \in 2..MaxSize
    /\ ck_overlap \in 0..(ck_size - 1)
    /\ ck_pc = "start"
    /\ ck_chunks = <<>>
    /\ ck_spans = <<>>

NextChunk == chunk_text_call

SpecChunk == InitChunk /\ [][NextChunk]_vars

\* ----------------------------------------------- properties of chunk_text
\* Pages whose half-open span [start, end) shares a character with the piece.
PagesOverlapping(ranges, sp) ==
    {ranges[j][3] : j \in {x \in 1..Len(ranges) :
        Max(ranges[x][1], sp[1]) < Min(ranges[x][2], sp[2])}}

\* C8: with pages in increasing order and overlap > 0, page_start and
\* page_end never decrease from one chunk to the next.
C8_MonotonicPages ==
    (ck_pc = "done" /\ ck_overlap > 0) =>
        \A i \in 1..(Len(ck_chunks) - 1) :
            /\ ck_chunks[i].page_start <= ck_chunks[i + 1].page_start
            /\ ck_chunks[i].page_end <= ck_chunks[i + 1].page_end

\* C9: a chunk's page_start and page_end are the smallest and the largest
\* page whose span overlaps the place the chunk's text occupies in the buffer.
C9_PagesOfActualSpan ==
    ck_pc = "done" =>
        \A i \in 1..Len(ck_chunks) :
            LET on == PagesOverlapping(page_ranges(ck_pages, 0), ck_spans[i])
            IN  /\ on # {}
                /\ ck_chunks[i].page_start = SetMin(on)
                /\ ck_chunks[i].page_end = SetMax(on)

\* C10: every non-empty chunk of a one-page document is attributed to that
\* page, never to the sentinel -1.
C10_SinglePage ==
    (ck_pc = "done" /\ Len(ck_pages) = 1) =>
        \A i \in 1..Len(ck_chunks) :
            Len(ck_chunks[i].text) > 0 =>
                /\ ck_chunks[i].page_start = ck_pages[1].page
                /\ ck_chunks[i].page_end = ck_pages[1].page

\* ------------------------------------------- the abstract add_paper stores
\* meta.get("abstract") is the key's text, None, or nothing when the record
\* (an error record) has no such key.
AbstractLimit == 1000
PageAlphabet == {"a", "b", NL}
PageContents == UNION {[1..m -> PageAlphabet] : m \in 0..MaxFirstPage}
MetaAbstracts ==
    {[kind |-> "absent", text |-> <<>>], [kind |-> "None", text |-> <<>>],
     [kind |-> "text", text |-> <<>>], [kind |-> "text", text |-> <<"a", "b">>]}

\* not abstract
NotAbstract(m) == m.kind # "text" \/ m.text = <<>>

\* "\n\n" in text_first_page
HasBreak(t) == \E i \in 1..(Len(t) - 1) : t[i] = NL /\ t[i + 1] = NL
FirstBreak(t) ==
    CHOOSE i \in 1..(Len(t) - 1) :
        /\ t[i] = NL /\ t[i + 1] = NL
        /\ \A j \in 1..(i - 1) : ~(t[j] = NL /\ t[j + 1] = NL)

\* text_first_page.split("\n\n"): the pieces between the occurrences, found
\* from the left without overlap.
RECURSIVE split_nlnl(_)
split_nlnl(t) ==
    IF ~HasBreak(t) THEN <<t>>
    ELSE <<SubSeq(t, 1, FirstBreak(t) - 1)>>
         \o split_nlnl(SubSeq(t, FirstBreak(t) + 2, Len(t)))

\* text_first_page.split("\n\n")[1] if "\n\n" in text_first_page
\* else text_first_page[:1000]
fallback_abstract(t) ==
    IF HasBreak(t) THEN split_nlnl(t)[2]
    ELSE SubSeq(t, 1, Min(Len(t), AbstractLimit))

\* add_paper step 1: the abstract that is embedded and stored.
add_paper_abstract ==
    /\ ab_pc = "start"
    /\ ab_pc' = "done"
    /\ ab_out' = IF NotAbstract(ab_meta) THEN fallback_abstract(ab_page)
                 ELSE ab_meta.text
    /\ UNCHANGED <<ab_page, ab_meta, storeVars, searchVars, metaVars, chunkVars,
                   dirVars, rq, concVars>>

InitAbs ==
    /\ InitStore /\ InitSearch /\ InitMetaIdle /\ InitChunkIdle
    /\ InitDirIdle /\ InitReqIdle /\ InitConcIdle
    /\ ab_page \in PageContents
    /\ ab_meta \in MetaAbstracts
    /\ ab_pc = "start"
    /\ ab_out = <<>>

NextAbs == add_paper_abstract

SpecAbs == InitAbs /\ [][NextAbs]_vars

\* C11: when the resolved record has no abstract (no key, None or empty), the
\* stored abstract is the text of the first page before its first double
\* newline, or its first 1000 characters when it has no double newline.
C11_FirstParagraphFallback ==
    (ab_pc = "done" /\ NotAbstract(ab_meta)) =>
        ab_out = IF HasBreak(ab_page) THEN SubSeq(ab_page, 1, FirstBreak(ab_page) - 1)
                 ELSE SubSeq(ab_page, 1, Min(Len(ab_page), AbstractLimit))

\* ------------------------------------------------ POST /upload, DELETE
\* One request at a time, each handler from its first statement to its
\* response.  papers_dir[n] is the content (hash) of papers/n, or NoFile.
\* The paper record of add_paper with its "filename" entry.
NamedPaperRecord(p, n) == PaperRecord(p) @@ [filename |-> n]

\* Where add_paper may raise: nowhere, before papers_collection.add (metadata,
\* abstract embedding) or after it (text extraction, chunk embedding,
\* chunks_collection.add).
Outcomes == {"ok", "raise_before", "raise_after"}

\* upload_papers for one file named n with content p.
post_upload(n, p, outcome) ==
    LET written == [papers_dir EXCEPT ![n] = p]
        removed == [papers_dir EXCEPT ![n] = NoFile]
    IN  /\ IF HashExists(p)
           THEN /\ papers_dir' = removed
                /\ up_pre' = [dir |-> papers_dir, papers |-> papers_collection,
                              chunks |-> chunks_collection]
                /\ up_resp' = [status |-> 409, hash |-> p, filename |-> n]
                /\ UNCHANGED <<papers_collection, chunks_collection>>
           ELSE /\ papers_collection' =
                    IF outcome = "raise_before" THEN papers_collection
                    ELSE CollAdd(papers_collection, {NamedPaperRecord(p, n)})
                /\ chunks_collection' =
                    IF outcome = "ok" THEN CollAdd(chunks_collection, ChunkRecords(p))
                    ELSE chunks_collection
                /\ papers_dir' = IF outcome = "ok" THEN written ELSE removed
                /\ up_resp' = [status |-> IF outcome = "ok" THEN 200 ELSE 500,
                               hash |-> p, filename |-> n]
                /\ up_pre' = NoPre
        /\ UNCHANGED <<upPc, clean_delete, searchVars, metaVars, chunkVars,
                       absVars, rq, concVars>>

\* DELETE /papers/{paper_hash}: delete_paper; the file in papers/ stays.
delete_route(p) ==
    /\ papers_collection' = CollDelete(papers_collection, p)
    /\ chunks_collection' = DeleteChunksOf(chunks_collection, p)
    /\ up_resp' = NoResp
    /\ up_pre' = NoPre
    /\ UNCHANGED <<papers_dir, upPc, clean_delete, searchVars, metaVars, chunkVars,
                   absVars, rq, concVars>>

InitUpload ==
    /\ InitStore /\ InitSearch /\ InitMetaIdle /\ InitChunkIdle
    /\ InitAbsIdle /\ InitDirIdle /\ InitReqIdle /\ InitConcIdle

NextUpload ==
    \/ \E n \in FileNames, p \in PaperIds, outcome \in Outcomes : post_upload(n, p, outcome)
    \/ \E p \in PaperIds : delete_route(p)

SpecUpload == InitUpload /\ [][NextUpload]_vars

\* C12: an upload answered 409 leaves both collections as they were, and the
\* file under which the paper with that hash was ingested as it was.
C12_DuplicateLeavesAllUnchanged ==
    up_resp.status = 409 =>
        /\ papers_collection = up_pre.papers
        /\ chunks_collection = up_pre.chunks
        /\ \A r \in papers_collection :
            r.hash = up_resp.hash => papers_dir[r.filename] = up_pre.dir[r.filename]

\* C16: the chunk records of each paper are numbered 0..N-1 in document order
\* (the record numbered c holds the c-th chunk of the text), and the storage
\* key (paper_id, "_", chunk_id) of a chunk record is the key of no other.
ChunksOf(p) == {r \in chunks_collection : r.paper_id = p}
StorageKey(r) == <<r.paper_id, "_", r.chunk_id>>
C16_ChunkIdsSequentialAndUnique ==
    /\ \A p \in PaperIds :
        /\ {r.chunk_id : r \in ChunksOf(p)} = 0..(Cardinality(ChunksOf(p)) - 1)
        /\ \A r \in ChunksOf(p) : r.document = TextOf(p, r.chunk_id)
    /\ \A r1, r2 \in chunks_collection : StorageKey(r1) = StorageKey(r2) => r1 = r2
    /\ \A r \in chunks_collection : r.id = <<r.paper_id, r.chunk_id>>

\* C16 witness: every file is ingested at once, one of them with several
\* chunks, after an upload that was answered 200.
C16_Witness ==
    /\ up_resp.status = 200
    /\ \A p \in PaperIds : ChunksOf(p) # {}
    /\ \E p \in PaperIds : Cardinality(ChunksOf(p)) >= 2

\* C18: after an upload answered 500 (add_paper raised) the paper collection
\* holds no record with the hash of the file.
C18_FailedAddLeavesNoPaper ==
    up_resp.status = 500 => ~HashExists(up_resp.hash)

\* ------------------------------------- search requests and their provider
\* SearchRequest: provider is any string (default "local"), api_key is
\* Optional[str] (default None).  The corpus is one that uploads produce.
ApiKeys == {"None", "", "key"}
Supported == {"Local", "OpenAI", "Google", "Anthropic"}
Cloud == {"OpenAI", "Google", "Anthropic"}
Corpora == SUBSET PaperIds

InitRequest ==
    /\ \E ingested \in Corpora :
        /\ papers_collection = {PaperRecord(p) : p \in ingested}
        /\ chunks_collection = UNION {ChunkRecords(p) : p \in ingested}
    /\ upPc = [p \in PaperIds |-> "idle"]
    /\ clean_delete = {}
    /\ rq \in [provider : Providers, api_key : ApiKeys]
    /\ InitSearch /\ InitMetaIdle /\ InitChunkIdle
    /\ InitAbsIdle /\ InitDirIdle /\ InitConcIdle

\* routes/search.py: rag_service.search(..., provider=request.provider,
\* api_key=request.api_key, ...)
NextRequest ==
    \/ \E q \in Queries, k \in 0..MaxK : search_stage1(q, k)
    \/ search_stage2(rq.provider)
    \/ search_return

SpecRequest == InitRequest /\ [][NextRequest]_vars

\* C14: a search whose provider is none of Local, OpenAI, Google, Anthropic
\* ends in an error and calls no completion backend, whatever the corpus.
C14_UnsupportedProviderIsError ==
    (s_pc = "done" /\ rq.provider \notin Supported) =>
        /\ s_out.status = "raised"
        /\ ~BackendCalled

\* C15: a search for a cloud provider without an api_key (None or empty) that
\* gets as far as answer generation ends in an error and the provider's
\* completion function is not called.
C15_MissingKeyRejected ==
    (s_pc = "done" /\ Stage2Ran /\ rq.provider \in Cloud /\ rq.api_key \in {"None", ""}) =>
        /\ s_out.status = "raised"
        /\ ~BackendCalled

\* ------------------------------- handlers interleaved by the thread pool
\* The handlers are plain functions: the server runs each request, and each
\* background task, on a pool thread, and nothing in the code serialises them.
\* One step is one statement on a collection.  live[c] says that collection c
\* exists and that the module-level handle refers to it; an operation through
\* a handle whose collection was deleted raises.
Papers == "new_academic_papers"
Chunks == "new_paper_chunks"

\* delete_paper, first statement: papers_collection.delete(where=...)
delete_paper_papers(p) ==
    /\ delPc[p] = "idle"
    /\ live[Papers]
    /\ papers_collection' = CollDelete(papers_collection, p)
    /\ delPc' = [delPc EXCEPT ![p] = "papers_deleted"]
    /\ UNCHANGED <<chunks_collection, upPc, clean_delete, rbPc, live,
                   searchVars, metaVars, chunkVars, absVars, dirVars, rq>>

\* delete_paper, second statement: chunks_collection.delete(where=...)
delete_paper_chunks(p) ==
    /\ delPc[p] = "papers_deleted"
    /\ live[Chunks]
    /\ chunks_collection' = DeleteChunksOf(chunks_collection, p)
    /\ delPc' = [delPc EXCEPT ![p] = "idle"]
    /\ UNCHANGED <<papers_collection, upPc, clean_delete, rbPc, live,
                   searchVars, metaVars, chunkVars, absVars, dirVars, rq>>

\* delete_paper's second statement raises; the handler logs and re-raises.
delete_paper_raise(p) ==
    /\ delPc[p] = "papers_deleted"
    /\ delPc' = [delPc EXCEPT ![p] = "idle"]
    /\ UNCHANGED <<papers_collection, chunks_collection, upPc, clean_delete, rbPc, live,
                   searchVars, metaVars, chunkVars, absVars, dirVars, rq>>

InitConc ==
    /\ InitStore /\ InitSearch /\ InitMetaIdle /\ InitChunkIdle
    /\ InitAbsIdle /\ InitDirIdle /\ InitReqIdle /\ InitConcIdle

\* The interleavings in which every call completes without error.
NextConc ==
    \/ \E p \in PaperIds : upload_papers(p)
    \/ \E p \in PaperIds : add_paper_chunks(p)
    \/ \E p \in PaperIds : delete_paper_papers(p)
    \/ \E p \in PaperIds : delete_paper_chunks(p)

SpecConc == InitConc /\ [][NextConc]_vars

\* POST /database/rebuild: background_tasks.add_task(rebuild_db)
rebuild_database(t) ==
    /\ rbPc[t] = "idle"
    /\ rbPc' = [rbPc EXCEPT ![t] = "L299"]
    /\ UNCHANGED <<storeVars, delPc, live, searchVars, metaVars, chunkVars,
                   absVars, dirVars, rq>>

\* client.delete_collection(name): removes the collection with its records;
\* raises when there is no such collection or the store fails.
DeleteCollection(t, ok, name, next) ==
    IF ok /\ live[name]
    THEN /\ live' = [live EXCEPT ![name] = FALSE]
         /\ papers_collection' = IF name = Papers THEN {} ELSE papers_collection
         /\ chunks_collection' = IF name = Chunks THEN {} ELSE chunks_collection
         /\ rbPc' = [rbPc EXCEPT ![t] = next]
    ELSE /\ rbPc' = [rbPc EXCEPT ![t] = "L317"]
         /\ UNCHANGED <<live, papers_collection, chunks_collection>>

\* handle = client.get_or_create_collection(name): the collection exists
\* afterwards, with the records it had if it existed, and the handle is on it.
GetOrCreate(t, ok, name, next, failed) ==
    /\ UNCHANGED <<papers_collection, chunks_collection>>
    /\ IF ok
       THEN /\ live' = [live EXCEPT ![name] = TRUE]
            /\ rbPc' = [rbPc EXCEPT ![t] = next]
       ELSE /\ rbPc' = [rbPc EXCEPT ![t] = failed]
            /\ UNCHANGED live

RebuildFrame ==
    UNCHANGED <<upPc, clean_delete, delPc, searchVars, metaVars, chunkVars,
                absVars, dirVars, rq>>

\* clear_all_data, the try block
clear_all_data_delete_papers(t, ok) ==
    rbPc[t] = "L299" /\ DeleteCollection(t, ok, Papers, "L300") /\ RebuildFrame
clear_all_data_delete_chunks(t, ok) ==
    rbPc[t] = "L300" /\ DeleteCollection(t, ok, Chunks, "L302") /\ RebuildFrame
clear_all_data_create_papers(t, ok) ==
    rbPc[t] = "L302" /\ GetOrCreate(t, ok, Papers, "L307", "L317") /\ RebuildFrame
clear_all_data_create_chunks(t, ok) ==
    rbPc[t] = "L307" /\ GetOrCreate(t, ok, Chunks, "returned", "L317") /\ RebuildFrame

\* clear_all_data, the except block: create them anyway; raise create_e
clear_all_data_recover_papers(t, ok) ==
    rbPc[t] = "L317" /\ GetOrCreate(t, ok, Papers, "L321", "raised") /\ RebuildFrame
clear_all_data_recover_chunks(t, ok) ==
    rbPc[t] = "L321" /\ GetOrCreate(t, ok, Chunks, "returned", "raised") /\ RebuildFrame

InitRebuild == InitConc

NextRebuild ==
    \/ \E p \in PaperIds : live[Papers] /\ upload_papers(p)
    \/ \E p \in PaperIds : live[Chunks] /\ add_paper_chunks(p)
    \/ \E p \in PaperIds : add_paper_raise(p)
    \/ \E p \in PaperIds : delete_paper_papers(p)
    \/ \E p \in PaperIds : delete_paper_chunks(p)
    \/ \E p \in PaperIds : delete_paper_raise(p)
    \/ \E t \in RebuildIds : rebuild_database(t)
    \/ \E t \in RebuildIds, ok \in BOOLEAN : clear_all_data_delete_papers(t, ok)
    \/ \E t \in RebuildIds, ok \in BOOLEAN : clear_all_data_delete_chunks(t, ok)
    \/ \E t \in RebuildIds, ok \in BOOLEAN : clear_all_data_create_papers(t, ok)
    \/ \E t \in RebuildIds, ok \in BOOLEAN : clear_all_data_create_chunks(t, ok)
    \/ \E t \in RebuildIds, ok \in BOOLEAN : clear_all_data_recover_papers(t, ok)
    \/ \E t \in RebuildIds, ok \in BOOLEAN : clear_all_data_recover_chunks(t, ok)

SpecRebuild == InitRebuild /\ [][NextRebuild]_vars

\* A rebuild task is running / is between its first delete_collection and its
\* last handle assignment.
Running(t) == rbPc[t] \notin {"idle", "returned", "raised"}
InWindow(t) == rbPc[t] \in {"L300", "L302", "L307", "L317", "L321"}
Quiescent ==
    /\ \A p \in PaperIds : upPc[p] = "idle" /\ delPc[p] = "idle"
    /\ \A t \in RebuildIds : ~Running(t)

\* C13: while a rebuild is between its first delete_collection and its last
\* handle assignment no add_paper and no delete_paper executes a statement
\* on a collection, and no second rebuild is between those two points.
C13_RebuildRunsAlone ==
    /\ [](\A t1, t2 \in RebuildIds : (InWindow(t1) /\ InWindow(t2)) => t1 = t2)
    /\ [][(\E t \in RebuildIds : InWindow(t)) => (upPc' = upPc /\ delPc' = delPc)]_vars

\* C17: whenever no add_paper and no delete_paper is in progress, every chunk
\* record's paper_id is the id of a record of the paper collection.
C17_NoOrphanChunks ==
    Quiescent =>
        \A r \in chunks_collection : \E x \in papers_collection : x.paper_id = r.paper_id

\* C19: at every return of clear_all_data without an exception both
\* collections are empty and both handles are on existing collections.
C19_ClearLeavesEmptyLiveCollections ==
    [][\A t \in RebuildIds :
        (rbPc[t] # "returned" /\ rbPc'[t] = "returned") =>
            /\ papers_collection' = {}
            /\ chunks_collection' = {}
            /\ \A c \in CollectionNames : live'[c]]_vars

====
